---- MODULE Spec2Model ----
(***************************************************************************)
(* Codebase Census (src/src/census.ts): the symbol pipeline of main().     *)
(*                                                                         *)
(*   raw ctags entries -> filterSymbols (normalizer pass, orphan scan)     *)
(*     -> classifySymbol per symbol -> per-feature aggregation             *)
(*     -> optional git churn overlay and hotspot scores                    *)
(*                                                                         *)
(* Strings are TLA+ strings (sequences of characters); a character is the  *)
(* one-character string SubSeq(s, i, i).  An optional field of a JS object *)
(* is a record field that is present or absent (f \in DOMAIN r).           *)
(***************************************************************************)
EXTENDS Integers, Sequences, FiniteSets, TLC

\* ------------------------------------------------------------------------
\* Bounds of the model (lengths of the enumerated inputs).
\* ------------------------------------------------------------------------
MaxEntries == 2
MaxRules == 2
MaxChurn == 2
MaxSymbols == 10
MaxHistory == 12
MaxPermuted == 5

\* ------------------------------------------------------------------------
\* Characters and string primitives of JavaScript used by the code.
\* ------------------------------------------------------------------------
Upper == {"A","B","C","D","E","F","G","H","I","J","K","L","M",
          "N","O","P","Q","R","S","T","U","V","W","X","Y","Z"}

Lower == {"a","b","c","d","e","f","g","h","i","j","k","l","m",
          "n","o","p","q","r","s","t","u","v","w","x","y","z"}

Digit == {"0","1","2","3","4","5","6","7","8","9"}

AlNum == Upper \cup Lower \cup Digit

\* \s of a JavaScript regular expression (the members that occur in text files)
Space == {" ", "\n", "\t", "\r"}

Ch(s, i) == SubSeq(s, i, i)

\* String.prototype.startsWith
StartsWith(s, p) == Len(p) <= Len(s) /\ SubSeq(s, 1, Len(p)) = p

\* String.prototype.endsWith
EndsWith(s, p) == Len(p) <= Len(s) /\ SubSeq(s, Len(s) - Len(p) + 1, Len(s)) = p

\* the literal w stands in s at position j (1-based)
LitAt(s, j, w) == j + Len(w) - 1 <= Len(s) /\ SubSeq(s, j, j + Len(w) - 1) = w

\* a containment test that wants the substring to end where a path
\* segment ends
IncludesWholeSegments(s, p) ==
  \E j \in 1..(Len(s) + 1) :
    /\ LitAt(s, j, p)
    /\ (EndsWith(p, "/") \/ j + Len(p) > Len(s) \/ Ch(s, j + Len(p)) = "/")

\* String.prototype.includes
Includes(s, p) == \E j \in 1..(Len(s) + 1) : LitAt(s, j, p)

\* relPath.replace(/\\/g, '/')
RECURSIVE ReplaceBackslashes(_)
ReplaceBackslashes(s) ==
  IF Len(s) = 0 THEN ""
  ELSE (IF Ch(s, 1) = "\\" THEN "/" ELSE Ch(s, 1))
         \o ReplaceBackslashes(SubSeq(s, 2, Len(s)))

\* ------------------------------------------------------------------------
\* The scan root and path.relative(repoRoot, p) for a path below the root
\* (ctags -R repoRoot reports every entry below repoRoot).
\* ------------------------------------------------------------------------
absRoot == "/r"

Relative(root, p) ==
  IF StartsWith(p, root \o "/") THEN SubSeq(p, Len(root) + 2, Len(p)) ELSE p

\* ------------------------------------------------------------------------
\* Symbol filtering: the kind tables and the name patterns of filterSymbols.
\* ------------------------------------------------------------------------
FUNCTION_KINDS == {"function", "generator"}

METHOD_KINDS == {"method"}

CLASS_KINDS == {"class", "object"}

NOISE_NAMES == {"<lambda>", "<anonymous>", "anonymous", "module.exports"}

\* /^[A-Z][a-zA-Z0-9]+$/
isPascalCase(name) ==
  /\ Len(name) >= 2
  /\ Ch(name, 1) \in Upper
  /\ \A j \in 2..Len(name) : Ch(name, j) \in AlNum

\* /^use[A-Z]/
isHook(name) == Len(name) >= 4 /\ SubSeq(name, 1, 3) = "use" /\ Ch(name, 4) \in Upper

\* /^[a-z][a-zA-Z0-9]+$/
isCamelCase(name) ==
  /\ Len(name) >= 2
  /\ Ch(name, 1) \in Lower
  /\ \A j \in 2..Len(name) : Ch(name, j) \in AlNum

\* IsNoise without the startsWith('__') test
IsNoiseByNameOnly(name) == name \in NOISE_NAMES

\* the two "Skip noise" tests at the head of the loop
IsNoise(name) == name \in NOISE_NAMES \/ StartsWith(name, "__")

\* NormalizedKind with isTsx true of .jsx files too
NormalizedKindJsxToo(entry) ==
  IF entry.kind \in FUNCTION_KINDS THEN "function"
  ELSE IF entry.kind \in METHOD_KINDS THEN "method"
  ELSE IF entry.kind \in CLASS_KINDS THEN "class"
  ELSE IF entry.kind = "constant" THEN
    LET isTsx == EndsWith(entry.path, ".tsx") \/ EndsWith(entry.path, ".jsx")
    IN  IF isPascalCase(entry.name) \/ isHook(entry.name) THEN "function"
        ELSE IF isTsx /\ isCamelCase(entry.name) THEN "function"
        ELSE ""
  ELSE ""

\* "Determine normalized kind": the canonical kind of an entry, "" when the
\* entry is dropped (the JS null / continue)
NormalizedKind(entry) ==
  IF entry.kind \in FUNCTION_KINDS THEN "function"
  ELSE IF entry.kind \in METHOD_KINDS THEN "method"
  ELSE IF entry.kind \in CLASS_KINDS THEN "class"
  ELSE IF entry.kind = "constant" THEN
    LET isTsx == EndsWith(entry.path, ".tsx")
    IN  IF isPascalCase(entry.name) \/ isHook(entry.name) THEN "function"
        ELSE IF isTsx /\ isCamelCase(entry.name) THEN "function"
        ELSE ""
  ELSE ""

\* a first loop that puts the new symbol first: unshift for push
FilterOneUnshift(syms, entry) ==
  IF IsNoise(entry.name) THEN syms
  ELSE IF NormalizedKind(entry) = "" THEN syms
  ELSE <<[name |-> entry.name, kind |-> NormalizedKind(entry),
          file |-> Relative(absRoot, entry.path), line |-> entry.line,
          feature |-> "", featureName |-> ""]>> \o syms

\* one iteration of the first loop of filterSymbols: the symbol list after
\* the entry has been looked at
FilterOne(syms, entry) ==
  IF IsNoise(entry.name) THEN syms
  ELSE IF NormalizedKind(entry) = "" THEN syms
  ELSE Append(syms, [name |-> entry.name, kind |-> NormalizedKind(entry),
                     file |-> Relative(absRoot, entry.path), line |-> entry.line,
                     feature |-> "", featureName |-> ""])

\* ------------------------------------------------------------------------
\* Second pass of filterSymbols: the files to re-read and the export scan.
\* ------------------------------------------------------------------------
\* tsxFiles collected from the raw entries the normalizer keeps
RECURSIVE TsxFilesFromSurvivors(_, _, _)
TsxFilesFromSurvivors(ents, k, acc) ==
  IF k > Len(ents) THEN acc
  ELSE LET rel == Relative(absRoot, ents[k].path)
       IN  IF (EndsWith(rel, ".tsx") \/ EndsWith(rel, ".jsx"))
              /\ FilterOne(<<>>, ents[k]) # <<>>
              /\ ~(\E j \in 1..Len(acc) : acc[j] = rel)
           THEN TsxFilesFromSurvivors(ents, k + 1, Append(acc, rel))
           ELSE TsxFilesFromSurvivors(ents, k + 1, acc)

\* tsxFiles: the distinct .tsx/.jsx files of the raw entries, in the order
\* of their first entry (a JS Set iterates in insertion order)
RECURSIVE TsxFilesFrom(_, _, _)
TsxFilesFrom(ents, k, acc) ==
  IF k > Len(ents) THEN acc
  ELSE LET rel == Relative(absRoot, ents[k].path)
       IN  IF (EndsWith(rel, ".tsx") \/ EndsWith(rel, ".jsx"))
              /\ ~(\E j \in 1..Len(acc) : acc[j] = rel)
           THEN TsxFilesFrom(ents, k + 1, Append(acc, rel))
           ELSE TsxFilesFrom(ents, k + 1, acc)

\* \s+ from position j: the first position at or after j that holds no
\* white space (Len(src) + 1 at the end of the text)
RECURSIVE SkipSpace(_, _)
SkipSpace(src, j) ==
  IF j <= Len(src) /\ Ch(src, j) \in Space THEN SkipSpace(src, j + 1) ELSE j

\* [a-zA-Z0-9]* from position j: the first position at or after j that holds
\* no letter or digit
RECURSIVE SkipAlNum(_, _)
SkipAlNum(src, j) ==
  IF j <= Len(src) /\ Ch(src, j) \in AlNum THEN SkipAlNum(src, j + 1) ELSE j

NoMatch == [ok |-> FALSE, name |-> "", end |-> 0]

\* (?:const|function)\s+([A-Z][a-zA-Z0-9]*) at position b
KeywordAndName(src, b) ==
  LET c == IF LitAt(src, b, "const") THEN b + 5
           ELSE IF LitAt(src, b, "function") THEN b + 8
           ELSE 0
      d == SkipSpace(src, c)
  IN  IF c = 0 \/ d = c \/ d > Len(src) THEN NoMatch
      ELSE IF Ch(src, d) \notin Upper THEN NoMatch
      ELSE [ok |-> TRUE, name |-> SubSeq(src, d, SkipAlNum(src, d + 1) - 1),
            end |-> SkipAlNum(src, d + 1)]

\* exportRe anchored at position p:
\* /export\s+(?:default\s+)?(?:const|function)\s+([A-Z][a-zA-Z0-9]*)/
\* name is match[1], end the position after the match (lastIndex + 1)
ExportReAt(src, p) ==
  IF ~LitAt(src, p, "export") THEN NoMatch
  ELSE LET a == SkipSpace(src, p + 6)
           b == IF LitAt(src, a, "default") /\ SkipSpace(src, a + 7) > a + 7
                THEN SkipSpace(src, a + 7) ELSE a
       IN  IF a = p + 6 THEN NoMatch ELSE KeywordAndName(src, b)

\* SplitLength counting the line breaks alone (a 0-based line)
RECURSIVE SplitLengthZeroBased(_, _)
SplitLengthZeroBased(src, p) ==
  IF p <= 1 THEN 0
  ELSE (IF Ch(src, p - 1) = "\n" THEN 1 ELSE 0) + SplitLengthZeroBased(src, p - 1)

\* src.substring(0, match.index).split('\n').length, for the match at the
\* 1-based position p: the number of pieces of the text before p
RECURSIVE SplitLength(_, _)
SplitLength(src, p) ==
  IF p <= 1 THEN 1
  ELSE (IF Ch(src, p - 1) = "\n" THEN 1 ELSE 0) + SplitLength(src, p - 1)

\* the position of the first match of exportRe at or after position p,
\* 0 when there is none: where exec finds its next match from lastIndex
MatchFrom(src, p) ==
  LET hits == {q \in p..Len(src) : ExportReAt(src, q).ok}
  IN  IF hits = {} THEN 0 ELSE CHOOSE q \in hits : \A r \in hits : q <= r

\* ExecLoop whose symbols.some(...) test also asks for the same line
RECURSIVE ExecLoopSkipSameLine(_, _, _, _)
ExecLoopSkipSameLine(syms, relFile, src, p) ==
  LET q == MatchFrom(src, p)
      m == ExportReAt(src, q)
      line == SplitLength(src, q)
  IN  IF q = 0 THEN syms
      ELSE IF \E k \in 1..Len(syms) :
                 /\ syms[k].file = relFile /\ syms[k].name = m.name
                 /\ syms[k].line = line
      THEN ExecLoopSkipSameLine(syms, relFile, src, m.end)
      ELSE ExecLoopSkipSameLine(Append(syms, [name |-> m.name, kind |-> "function",
                                              file |-> relFile, line |-> line,
                                              feature |-> "", featureName |-> ""]),
                                relFile, src, m.end)

\* the while ((match = exportRe.exec(src)) !== null) loop from position p
RECURSIVE ExecLoop(_, _, _, _)
ExecLoop(syms, relFile, src, p) ==
  LET q == MatchFrom(src, p)
      m == ExportReAt(src, q)
      line == SplitLength(src, q)
  IN  IF q = 0 THEN syms
      ELSE IF \E k \in 1..Len(syms) :
                 syms[k].file = relFile /\ syms[k].name = m.name
      THEN ExecLoop(syms, relFile, src, m.end)
      ELSE ExecLoop(Append(syms, [name |-> m.name, kind |-> "function",
                                  file |-> relFile, line |-> line,
                                  feature |-> "", featureName |-> ""]),
                    relFile, src, m.end)

\* a scan whose catch gives up the list built so far
ScanOneResetOnError(syms, relFile, read) ==
  IF ~read.ok THEN <<>> ELSE ExecLoop(syms, relFile, read.text, 1)

\* the body of the loop over tsxFiles for one file; read is the outcome of
\* readFileSync: ok and the text, or not ok when it throws (the catch {})
ScanOne(syms, relFile, read) ==
  IF ~read.ok THEN syms ELSE ExecLoop(syms, relFile, read.text, 1)

\* ------------------------------------------------------------------------
\* Feature classification.
\* ------------------------------------------------------------------------
Uncategorized == [id |-> "uncategorized", name |-> "Uncategorized", category |-> "Unknown"]

\* '/' + relPath.replace(/\\/g, '/')
Normalized(relPath) == "/" \o ReplaceBackslashes(relPath)

\* PathsHit looking at feat.paths[0] alone
PathsHitFirstOnly(normalized, paths, k) ==
  k <= Len(paths) /\ k = 1 /\ Includes(normalized, paths[1])

\* the inner loop "for (const p of feat.paths)" from the k-th substring:
\* TRUE when it reaches a substring the path includes
RECURSIVE PathsHit(_, _, _)
PathsHit(normalized, paths, k) ==
  IF k > Len(paths) THEN FALSE
  ELSE IF Includes(normalized, paths[k]) THEN TRUE
  ELSE PathsHit(normalized, paths, k + 1)

\* ClassifyFrom with the last matching rule winning
ClassifyLastMatch(normalized, features, k) ==
  LET M == {j \in k..Len(features) : PathsHit(normalized, features[j].paths, 1)}
      last == CHOOSE j \in M : \A h \in M : h <= j
  IN  IF M = {} THEN Uncategorized
      ELSE [id |-> features[last].id, name |-> features[last].name,
            category |-> features[last].category]

\* the outer loop "for (const feat of features)" from the k-th rule
RECURSIVE ClassifyFrom(_, _, _)
ClassifyFrom(normalized, features, k) ==
  IF k > Len(features) THEN Uncategorized
  ELSE IF PathsHit(normalized, features[k].paths, 1)
       THEN [id |-> features[k].id, name |-> features[k].name,
             category |-> features[k].category]
  ELSE ClassifyFrom(normalized, features, k + 1)

classifySymbol(relPath, features) == ClassifyFrom(Normalized(relPath), features, 1)

\* ------------------------------------------------------------------------
\* featureMap: a JS Map from feature id to FeatureReport, held as the
\* sequence of its values in insertion order (every value's id is its key).
\* ------------------------------------------------------------------------
\* the position of the bucket of id, 0 when the map has none (Map.get)
MapIndex(m, id) ==
  IF \E k \in 1..Len(m) : m[k].id = id
  THEN CHOOSE k \in 1..Len(m) : m[k].id = id
  ELSE 0

\* Map.set: a present key keeps its position, a new key goes last
MapSet(m, r) ==
  IF MapIndex(m, r.id) = 0 THEN Append(m, r) ELSE [m EXCEPT ![MapIndex(m, r.id)] = r]

EmptyReport(id, name, category) ==
  [id |-> id, name |-> name, category |-> category,
   functions |-> 0, methods |-> 0, classes |-> 0, total |-> 0]

\* "4. Aggregate by feature": the buckets seeded from config.features ...
RECURSIVE SeedFrom(_, _, _)
SeedFrom(m, features, k) ==
  IF k > Len(features) THEN m
  ELSE SeedFrom(MapSet(m, EmptyReport(features[k].id, features[k].name,
                                      features[k].category)),
                features, k + 1)

\* a seeding that stops after the configured rules
SeedBucketsRulesOnly(features) == SeedFrom(<<>>, features, 1)

\* ... and then the uncategorized bucket
SeedBuckets(features) ==
  MapSet(SeedFrom(<<>>, features, 1),
         EmptyReport("uncategorized", "Uncategorized", "Unknown"))

\* CountKind with report.total++ left inside the function and method branches
CountKindTotalInBranch(report, kind) ==
  [report EXCEPT
     !.functions = IF kind = "function" THEN @ + 1 ELSE @,
     !.methods = IF kind = "method" THEN @ + 1 ELSE @,
     !.classes = IF kind = "class" THEN @ + 1 ELSE @,
     !.total = IF kind \in {"function", "method"} THEN @ + 1 ELSE @]

\* the kind counters of one report after one symbol of the kind
CountKind(report, kind) ==
  [report EXCEPT
     !.functions = IF kind = "function" THEN @ + 1 ELSE @,
     !.methods = IF kind = "function" THEN @ ELSE IF kind = "method" THEN @ + 1 ELSE @,
     !.classes = IF kind \in {"function", "method"} THEN @
                 ELSE IF kind = "class" THEN @ + 1 ELSE @,
     !.total = @ + 1]

\* one iteration of "for (const sym of symbols)" of the aggregation
AggregateOne(m, sym) ==
  LET report == IF MapIndex(m, sym.feature) = 0
                THEN EmptyReport(sym.feature, sym.featureName, "Unknown")
                ELSE m[MapIndex(m, sym.feature)]
  IN  MapSet(m, CountKind(report, sym.kind))

\* ------------------------------------------------------------------------
\* Git churn: the records of getGitChurn and the overlay of main().
\* ------------------------------------------------------------------------
null == "null"

Has(r, f) == f \in DOMAIN r

\* (report.f || 0)
OrZero(r, f) == IF Has(r, f) THEN r[f] ELSE 0

\* report.f = v, adding the property when the object has none
With(r, f, v) == [g \in DOMAIN r \cup {f} |-> IF g = f THEN v ELSE r[g]]

\* Array.prototype.sort((a, b) => b.churn - a.churn) is stable: x goes
\* behind every element whose churn is at least its own
RECURSIVE InsertByChurn(_, _, _)
InsertByChurn(sorted, x, k) ==
  IF k > Len(sorted) THEN Append(sorted, x)
  ELSE IF sorted[k].churn < x.churn
       THEN SubSeq(sorted, 1, k - 1) \o <<x>> \o SubSeq(sorted, k, Len(sorted))
  ELSE InsertByChurn(sorted, x, k + 1)

RECURSIVE SortFrom(_, _, _)
SortFrom(sorted, list, k) ==
  IF k > Len(list) THEN sorted
  ELSE SortFrom(InsertByChurn(sorted, list[k], 1), list, k + 1)

SortByChurnDesc(list) == SortFrom(<<>>, list, 1)

\* getGitChurn: one FileChurn per file of the numstat log, churn being
\* additions + deletions, returned sorted by churn descending
getGitChurn(log) ==
  SortByChurnDesc([k \in 1..Len(log) |->
    [path |-> log[k].path, commits |-> log[k].commits,
     additions |-> log[k].additions, deletions |-> log[k].deletions,
     churn |-> log[k].additions + log[k].deletions]])

\* an overlay that hands file.path to the rule loops as it is, without
\* the leading '/' and with its backslashes
ChurnOneRawPath(m, file, features) ==
  LET k == MapIndex(m, ClassifyFrom(file.path, features, 1).id)
      top == IF Has(m[k], "topFiles") THEN m[k].topFiles ELSE <<>>
  IN  IF k = 0 THEN m
      ELSE [m EXCEPT ![k] =
              With(With(With(m[k], "commits", OrZero(m[k], "commits") + file.commits),
                        "churn", OrZero(m[k], "churn") + file.churn),
                   "topFiles", Append(top, [path |-> file.path,
                                            commits |-> file.commits,
                                            churn |-> file.churn]))]

\* an overlay that assigns report.churn = file.churn where the code adds
ChurnOneAssignChurn(m, file, features) ==
  LET k == MapIndex(m, classifySymbol(file.path, features).id)
      top == IF Has(m[k], "topFiles") THEN m[k].topFiles ELSE <<>>
  IN  IF k = 0 THEN m
      ELSE [m EXCEPT ![k] =
              With(With(With(m[k], "commits", OrZero(m[k], "commits") + file.commits),
                        "churn", file.churn),
                   "topFiles", Append(top, [path |-> file.path,
                                            commits |-> file.commits,
                                            churn |-> file.churn]))]

\* an overlay that leaves out the files no rule matches
ChurnOneSkipUncategorized(m, file, features) ==
  LET k == MapIndex(m, classifySymbol(file.path, features).id)
      top == IF Has(m[k], "topFiles") THEN m[k].topFiles ELSE <<>>
  IN  IF k = 0 \/ classifySymbol(file.path, features).id = Uncategorized.id THEN m
      ELSE [m EXCEPT ![k] =
              With(With(With(m[k], "commits", OrZero(m[k], "commits") + file.commits),
                        "churn", OrZero(m[k], "churn") + file.churn),
                   "topFiles", Append(top, [path |-> file.path,
                                            commits |-> file.commits,
                                            churn |-> file.churn]))]

\* one iteration of "for (const file of churnData)"
ChurnOne(m, file, features) ==
  LET k == MapIndex(m, classifySymbol(file.path, features).id)
      top == IF Has(m[k], "topFiles") THEN m[k].topFiles ELSE <<>>
  IN  IF k = 0 THEN m
      ELSE [m EXCEPT ![k] =
              With(With(With(m[k], "commits", OrZero(m[k], "commits") + file.commits),
                        "churn", OrZero(m[k], "churn") + file.churn),
                   "topFiles", Append(top, [path |-> file.path,
                                            commits |-> file.commits,
                                            churn |-> file.churn]))]

\* the largest power of two steps: h doubled until h * h exceeds n
RECURSIVE SqrtUpper(_, _)
SqrtUpper(n, h) == IF h * h > n THEN h ELSE SqrtUpper(n, 2 * h)

\* floor(sqrt(n)) by bisection between lo (lo * lo <= n) and hi (hi * hi > n)
RECURSIVE SqrtBetween(_, _, _)
SqrtBetween(n, lo, hi) ==
  IF hi - lo <= 1 THEN lo
  ELSE LET mid == (lo + hi) \div 2
       IN  IF mid * mid <= n THEN SqrtBetween(n, mid, hi) ELSE SqrtBetween(n, lo, mid)

FloorSqrt(n) == SqrtBetween(n, 0, SqrtUpper(n, 1))

\* MathRoundChurnSqrt with Math.floor in the place of Math.round
MathFloorChurnSqrt(churn, commits) == FloorSqrt(churn * churn * commits)

\* Math.round(churn * Math.sqrt(commits)) for naturals: round(x) is
\* floor((floor(2x) + 1) / 2) and floor(2x) is floor(sqrt(4 churn^2 commits))
MathRoundChurnSqrt(churn, commits) ==
  (FloorSqrt(4 * churn * churn * commits) + 1) \div 2

\* topFiles.slice(0, 10)
TopFilesLimit == 10

\* ScoreOne that keeps the last ten files of the sorted list: slice(-10)
ScoreOneSliceTail(report) ==
  LET scored == IF OrZero(report, "churn") # 0 /\ OrZero(report, "commits") # 0
                THEN With(report, "hotspotScore",
                          MathRoundChurnSqrt(report.churn, report.commits))
                ELSE report
  IN  IF Has(scored, "topFiles")
      THEN With(scored, "topFiles",
                SubSeq(SortByChurnDesc(scored.topFiles),
                       IF Len(scored.topFiles) < TopFilesLimit
                       THEN 1 ELSE Len(scored.topFiles) - TopFilesLimit + 1,
                       Len(scored.topFiles)))
      ELSE scored

\* ScoreOne with the score guarded by report.churn alone
ScoreOneChurnOnly(report) ==
  LET scored == IF OrZero(report, "churn") # 0
                THEN With(report, "hotspotScore",
                          MathRoundChurnSqrt(report.churn, OrZero(report, "commits")))
                ELSE report
  IN  IF Has(scored, "topFiles")
      THEN With(scored, "topFiles",
                SubSeq(SortByChurnDesc(scored.topFiles), 1,
                       IF Len(scored.topFiles) < TopFilesLimit
                       THEN Len(scored.topFiles) ELSE TopFilesLimit))
      ELSE scored

\* one iteration of "for (const report of featureMap.values())"
ScoreOne(report) ==
  LET scored == IF OrZero(report, "churn") # 0 /\ OrZero(report, "commits") # 0
                THEN With(report, "hotspotScore",
                          MathRoundChurnSqrt(report.churn, report.commits))
                ELSE report
  IN  IF Has(scored, "topFiles")
      THEN With(scored, "topFiles",
                SubSeq(SortByChurnDesc(scored.topFiles), 1,
                       IF Len(scored.topFiles) < TopFilesLimit
                       THEN Len(scored.topFiles) ELSE TopFilesLimit))
      ELSE scored

\* ------------------------------------------------------------------------
\* The ranked list: "Sort by total symbols (or hotspot score if churn
\* available)".
\* ------------------------------------------------------------------------
\* a filter that forgets the buckets the history alone filled
RankKeepTotalOnly(f) == f.total > 0

\* f => f.total > 0 || (f.churn && f.churn > 0)
RankKeep(f) == f.total > 0 \/ (Has(f, "churn") /\ f.churn > 0)

\* [...featureMap.values()].filter(...)
RankFilter(m) == SelectSeq(m, RankKeep)

\* a comparator whose fallback orders by total ascending
RankCompareAscending(a, b, snc) ==
  IF snc # null /\ Has(a, "hotspotScore") /\ Has(b, "hotspotScore")
  THEN b.hotspotScore - a.hotspotScore
  ELSE a.total - b.total

\* the comparator handed to sort: (a, b) => ...
RankCompare(a, b, snc) ==
  IF snc # null /\ Has(a, "hotspotScore") /\ Has(b, "hotspotScore")
  THEN b.hotspotScore - a.hotspotScore
  ELSE b.total - a.total

\* Array.prototype.sort as Node runs it on an array shorter than 64: the
\* run the array starts with is found (a strictly descending one is
\* reversed), then every later element is inserted by binary search.
\* RunEnd is the index of the last element of the first run.
RECURSIVE RunEnd(_, _, _, _)
RunEnd(arr, snc, descending, idx) ==
  IF idx > Len(arr) THEN Len(arr)
  ELSE LET order == RankCompare(arr[idx], arr[idx - 1], snc)
       IN  IF (descending /\ order >= 0) \/ (~descending /\ order < 0)
           THEN idx - 1
           ELSE RunEnd(arr, snc, descending, idx + 1)

ReverseRange(arr, n) ==
  [k \in 1..Len(arr) |-> IF k <= n THEN arr[n + 1 - k] ELSE arr[k]]

\* the index the pivot is inserted at, searched in arr[left..right-1]
RECURSIVE BinarySearch(_, _, _, _, _)
BinarySearch(arr, pivot, left, right, snc) ==
  IF left >= right THEN left
  ELSE LET mid == left + ((right - left) \div 2)
       IN  IF RankCompare(pivot, arr[mid], snc) < 0
           THEN BinarySearch(arr, pivot, left, mid, snc)
           ELSE BinarySearch(arr, pivot, mid + 1, right, snc)

RECURSIVE BinaryInsertionSort(_, _, _)
BinaryInsertionSort(arr, start, snc) ==
  IF start > Len(arr) THEN arr
  ELSE LET left == BinarySearch(arr, arr[start], 1, start, snc)
       IN  BinaryInsertionSort(
             SubSeq(arr, 1, left - 1) \o <<arr[start]>> \o SubSeq(arr, left, start - 1)
               \o SubSeq(arr, start + 1, Len(arr)),
             start + 1, snc)

\* .sort((a, b) => ...)
RankSort(arr, snc) ==
  IF Len(arr) < 2 THEN arr
  ELSE LET descending == RankCompare(arr[2], arr[1], snc) < 0
           run == RunEnd(arr, snc, descending, 3)
       IN  BinaryInsertionSort(IF descending THEN ReverseRange(arr, run) ELSE arr,
                               run + 1, snc)

\* ------------------------------------------------------------------------
\* Stats.
\* ------------------------------------------------------------------------
\* featureMap.get('uncategorized')?.total || 0
UncatCount(m) ==
  IF MapIndex(m, Uncategorized.id) = 0 THEN 0 ELSE m[MapIndex(m, Uncategorized.id)].total

\* x.toFixed(1) of the x that is tenths / 10: the decimal string
ToFixed1(tenths) == ToString(tenths \div 10) \o "." \o ToString(tenths % 10)

\* a percentage cut after its first decimal, not rounded
CoveragePctTruncated(uncatCount, totalSymbols) ==
  IF totalSymbols = 0 THEN "NaN"
  ELSE ToFixed1((1000 * (totalSymbols - uncatCount)) \div totalSymbols)

\* ((1 - uncatCount / totalSymbols) * 100).toFixed(1). With no symbol the
\* quotient is 0 / 0, NaN, and NaN.toFixed(1) is the string "NaN"; else
\* toFixed rounds to the nearest tenth, a tie going up.
CoveragePct(uncatCount, totalSymbols) ==
  IF totalSymbols = 0 THEN "NaN"
  ELSE ToFixed1((2000 * (totalSymbols - uncatCount) + totalSymbols)
                  \div (2 * totalSymbols))

\* symbols.filter(s => s.kind === kind).length
TotalOfKind(syms, kind) == Len(SelectSeq(syms, LAMBDA sym : sym.kind = kind))

\* ------------------------------------------------------------------------
\* The inputs of a run, drawn from small pools.
\* ------------------------------------------------------------------------
Seqs(S, n) == UNION {[1..k -> S] : k \in 0..n}

Entry(name, kind, path, line) == [name |-> name, kind |-> kind, path |-> path, line |-> line]

\* raw entries of one repository: a component the extractor reports as a
\* constant, two methods of one name in one file, a plain constant, a class,
\* a function and a method outside every rule
EntryPool ==
  {Entry("Banner", "constant", "/r/src/api/Banner.tsx", 4),
   Entry("render", "method", "/r/src/api/Banner.tsx", 6),
   Entry("render", "method", "/r/src/api/Banner.tsx", 9),
   Entry("MAX_RETRIES", "constant", "/r/src/api/Banner.tsx", 2),
   Entry("Widget", "class", "/r/src/apiary/Widget.jsx", 1),
   Entry("helper", "function", "/r/lib/util.ts", 3),
   Entry("run", "method", "/r/tools/run.py", 5)}

DefaultEntries ==
  <<Entry("Banner", "constant", "/r/src/api/Banner.tsx", 4),
    Entry("Widget", "class", "/r/src/apiary/Widget.jsx", 1),
    Entry("helper", "function", "/r/lib/util.ts", 3),
    Entry("run", "method", "/r/tools/run.py", 5)>>

\* every name shape the normalizer tells apart, under every extractor kind
NormNames ==
  {"<lambda>", "<anonymous>", "anonymous", "module.exports", "__internalHelper",
   "__Init", "MAX_RETRIES", "useWidgetState", "UserCard", "A", "helper", "user",
   "my_var", "_private"}

NormKinds ==
  {"function", "generator", "method", "class", "object", "struct", "constant",
   "interface", "unknown"}

NormPaths == {"/r/src/api/Card.tsx", "/r/src/api/Card.jsx", "/r/lib/util.ts"}

NormPool == {Entry(n, k, p, 7) : n \in NormNames, k \in NormKinds, p \in NormPaths}

File(text) == [ok |-> TRUE, text |-> text]

\* file systems: the text of each .tsx/.jsx file; a file outside the domain
\* is one readFileSync throws on
FsA ==
  [f \in {"src/api/Banner.tsx", "src/apiary/Widget.jsx", "src/api/Card.tsx",
          "src/api/Card.jsx"} |->
     CASE f = "src/api/Banner.tsx" ->
            File("import x\nexport function Banner() {}\n")
       [] f = "src/apiary/Widget.jsx" ->
            File("export const Widget = () => 1\n\nexport default function Panel() {}\n")
       [] f = "src/api/Card.tsx" ->
            File("export const UserCard = 1\nexport const MAX_RETRIES = 3\n")
       [] OTHER -> File("let a\n\texport function A() {}")]

FsB ==
  [f \in {"src/api/Banner.tsx"} |->
     File("// c\n\nexport default\nfunction Banner() {}\nexport  const Card = 1\n"
          \o "export function Banner(a) {}\nexport const useThing = 2\nexport class K {}\n")]

FsC ==
  [f \in {"src/apiary/Widget.jsx"} |-> File("export function Panel() {}\nexport const Panel = 2")]

FileSystems == {FsA, FsB, FsC}

Rule(id, name, category, paths) ==
  [id |-> id, name |-> name, category |-> category, paths |-> paths]

RulePool ==
  {Rule("api", "API", "Backend", <<"/api/">>),
   Rule("ui", "UI", "Frontend", <<".tsx", "/api/">>),
   Rule("core", "Core", "Backend", <<"/src/", "/lib/">>),
   Rule("misc", "Misc", "Other", <<>>)}

DefaultRules ==
  <<Rule("api", "API", "Backend", <<"/api/">>),
    Rule("core", "Core", "Backend", <<"/src/", "/lib/">>)>>

Stat(path, commits, additions, deletions) ==
  [path |-> path, commits |-> commits, additions |-> additions, deletions |-> deletions]

\* per-file history records: commits 0 is a file of the numstat log with no
\* line of the name-only log; churn 0 is a binary file ("-" columns)
ChurnPool ==
  {Stat("src/api/a.ts", 1, 30, 20),
   Stat("src/api/b.ts", 3, 50, 0),
   Stat("src\\api\\c.ts", 4, 60, 40),
   Stat("lib/u.ts", 0, 7, 0),
   Stat("docs/x.png", 2, 0, 0),
   Stat("README.md", 2, 2, 1)}

DefaultLog == <<Stat("README.md", 2, 2, 1), Stat("src/api/a.ts", 1, 30, 20)>>

\* the logs with one record per file, as the awk script prints them
DistinctPaths(logs) ==
  {log \in logs : \A a, b \in 1..Len(log) : log[a].path = log[b].path => a = b}

\* runs of t symbols, u of them outside every rule
CoverageEntries(t, u) ==
  [k \in 1..t |-> IF k <= u THEN Entry("run", "method", "/r/tools/run.py", k)
                            ELSE Entry("helper", "function", "/r/lib/util.ts", k)]

\* a rule list and history records under which a bucket of many symbols
\* and a low score, a bucket without score and a bucket of no symbol and a
\* high score meet
RankRules ==
  <<Rule("core", "Core", "Backend", <<"/src/", "/lib/">>),
    Rule("tools", "Tools", "Dev", <<"/tools/">>)>>

RankChurnPool ==
  {Stat("lib/u.ts", 1, 2, 1),
   Stat("Makefile", 2, 30, 20),
   Stat("tools/x.py", 1, 5, 5),
   Stat("docs/x.md", 0, 4, 0)}

\* a history of n files, all but the third under src/api/, whose churn
\* rises, is the same for all, or repeats with ties
TopPatterns == {"rising", "equal", "mixed"}

TopLog(n, pattern) ==
  [k \in 1..n |->
     Stat((IF k = 3 THEN "lib/g" ELSE "src/api/f") \o ToString(k) \o ".ts",
          1,
          CASE pattern = "rising" -> k
            [] pattern = "equal"  -> 5
            [] OTHER              -> (7 * k) % 5,
          0)]

\* entries, rules and a history in which the files of the symbols are the
\* files of the churn records, one of them written with backslashes, and
\* a rule whose substring "/api" ends inside a path segment
AttributionEntries ==
  DefaultEntries \o <<Entry("winHelper", "function", "/r/src\\api\\c.ts", 1)>>

AttributionRules == RulePool \cup {Rule("gateway", "Gateway", "Backend", <<"/api">>)}

AttributionLog ==
  <<Stat("src/api/Banner.tsx", 2, 10, 4),
    Stat("src/apiary/Widget.jsx", 1, 6, 0),
    Stat("lib/util.ts", 3, 8, 8),
    Stat("tools/run.py", 1, 1, 1),
    Stat("src\\api\\c.ts", 4, 60, 40)>>

\* ------------------------------------------------------------------------
\* State.
\* ------------------------------------------------------------------------
VARIABLES
  entries,      \* rawEntries: what runCtags returned
  fsys,         \* the files of the repository as readFileSync sees them
  features,     \* config.features
  since,        \* the --since argument, null without one
  gitLog,       \* the per-file history getGitChurn reads
  pc,           \* the stage main() is in
  i,            \* the index of the loop of that stage
  symbols,      \* the symbol list
  nFiltered,    \* symbols.length when the first pass of filterSymbols ended
  tsxFiles,     \* tsxFiles of filterSymbols
  featureMap,   \* featureMap of main()
  churnData,    \* churnData of main()
  ctags,        \* what becomes of the extractor: found or not, spawned or not, its exit
  jsonOut,      \* the --json argument, null without one
  sorted,       \* sorted of main(): the ranked list
  coveragePct,  \* coveragePct of main()
  jsonFile,     \* what writeFileSync(jsonOut, ...) wrote, <<>> before
  stdout,       \* the lines console.log printed
  readLog       \* the files readFileSync was called on, in the order of the calls

inputs == <<entries, fsys, features, since, gitLog, ctags, jsonOut>>

outputs == <<sorted, coveragePct, jsonFile, stdout>>

vars == <<entries, fsys, features, since, gitLog, pc, i, symbols, nFiltered,
          tsxFiles, featureMap, churnData, ctags, jsonOut, sorted, coveragePct,
          jsonFile, stdout, readLog>>

ReadFile(relFile) ==
  IF relFile \in DOMAIN fsys THEN fsys[relFile] ELSE [ok |-> FALSE, text |-> ""]

Start ==
  /\ pc = "findCtags"
  /\ i = 1
  /\ symbols = <<>>
  /\ nFiltered = 0
  /\ tsxFiles = <<>>
  /\ featureMap = <<>>
  /\ churnData = <<>>
  /\ sorted = <<>>
  /\ coveragePct = ""
  /\ jsonFile = <<>>
  /\ stdout = <<>>
  /\ readLog = <<>>

\* runs that vary the raw entries and the files
InitEntries ==
  /\ entries \in Seqs(EntryPool, MaxEntries)
  /\ fsys \in FileSystems
  /\ features = DefaultRules
  /\ since = "2024-01-01"
  /\ gitLog = DefaultLog
  /\ ctags = "ok" /\ jsonOut = null

\* runs of one raw entry of every name, kind and file type
InitNormalizer ==
  /\ entries \in {<<e>> : e \in NormPool}
  /\ fsys = FsA
  /\ features = DefaultRules
  /\ since = null
  /\ gitLog = <<>>
  /\ ctags = "ok" /\ jsonOut = null

\* runs that vary the rule list
InitRules ==
  /\ entries = DefaultEntries
  /\ fsys = FsA
  /\ features \in Seqs(RulePool, MaxRules)
  /\ since \in {null, "2024-01-01"}
  /\ gitLog = IF since = null THEN <<>> ELSE DefaultLog
  /\ ctags = "ok" /\ jsonOut = "out.json"

\* runs that vary the history
InitChurn ==
  /\ entries = DefaultEntries
  /\ fsys = FsA
  /\ features = DefaultRules
  /\ since = "2024-01-01"
  /\ gitLog \in DistinctPaths(Seqs(ChurnPool, MaxChurn))
  /\ ctags = "ok" /\ jsonOut = null

\* runs that vary how many symbols there are and how many are uncategorized
InitCoverage ==
  /\ \E t \in 0..MaxSymbols : \E u \in 0..t : entries = CoverageEntries(t, u)
  /\ fsys = FsA
  /\ features = DefaultRules
  /\ since = null
  /\ gitLog = <<>>
  /\ ctags = "ok" /\ jsonOut = "out.json"

\* runs that mix buckets with and without a hotspot score
InitRank ==
  /\ entries = DefaultEntries
  /\ fsys = FsA
  /\ features = RankRules
  /\ since = "2024-01-01"
  /\ gitLog \in DistinctPaths(Seqs(RankChurnPool, MaxChurn))
  /\ ctags = "ok" /\ jsonOut = null

\* runs with a history of more files than topFiles keeps
InitTop ==
  /\ entries = DefaultEntries
  /\ fsys = FsA
  /\ features = DefaultRules
  /\ since = "2024-01-01"
  /\ \E n \in 0..MaxHistory : \E pattern \in TopPatterns : gitLog = TopLog(n, pattern)
  /\ ctags = "ok" /\ jsonOut = null

\* runs in which symbols and churn records share their files
InitAttribution ==
  /\ entries = AttributionEntries
  /\ fsys = FsA
  /\ features \in Seqs(AttributionRules, MaxRules)
  /\ since = "2024-01-01"
  /\ gitLog = AttributionLog
  /\ ctags = "ok" /\ jsonOut = null

\* runs that vary what becomes of the extractor; one that exits with a
\* failure status may have printed nothing, a part or all of its entries
InitTool ==
  /\ ctags \in {"ok", "missing", "spawnError", "exitFailure"}
  /\ entries \in {SubSeq(DefaultEntries, 1, k) : k \in {0, 2, Len(DefaultEntries)}}
  /\ fsys = FsA
  /\ features = DefaultRules
  /\ since = null
  /\ gitLog = <<>>
  /\ jsonOut \in {null, "out.json"}

Init ==
  Start /\ (InitEntries \/ InitNormalizer \/ InitRules \/ InitChurn \/ InitCoverage
             \/ InitRank \/ InitTop \/ InitTool \/ InitAttribution)

\* ------------------------------------------------------------------------
\* Steps of main().
\* ------------------------------------------------------------------------
\* "1. Run ctags": findCtags returns the binary, or the process exits with
\* status 1 when no Universal Ctags is found
FindCtags ==
  /\ pc = "findCtags"
  /\ pc' = IF ctags = "missing" THEN "exit1" ELSE "runCtags"
  /\ UNCHANGED <<inputs, readLog, outputs, i, symbols, nFiltered, tsxFiles, featureMap, churnData>>

\* runCtags: the process exits with status 1 when spawnSync reports an
\* error; the exit status of the extractor is not looked at, and the lines
\* it printed are parsed
RunCtags ==
  /\ pc = "runCtags"
  /\ pc' = IF ctags = "spawnError" THEN "exit1" ELSE "filter"
  /\ UNCHANGED <<inputs, readLog, outputs, i, symbols, nFiltered, tsxFiles, featureMap, churnData>>

\* filterSymbols, first loop: one raw entry
FilterEntry ==
  /\ pc = "filter" /\ i <= Len(entries)
  /\ symbols' = FilterOne(symbols, entries[i])
  /\ i' = i + 1
  /\ UNCHANGED <<inputs, readLog, outputs, pc, nFiltered, tsxFiles, featureMap, churnData>>

\* filterSymbols, between the passes: tsxFiles is collected
CollectTsxFiles ==
  /\ pc = "filter" /\ i > Len(entries)
  /\ tsxFiles' = TsxFilesFrom(entries, 1, <<>>)
  /\ nFiltered' = Len(symbols)
  /\ pc' = "scan" /\ i' = 1
  /\ UNCHANGED <<inputs, readLog, outputs, symbols, featureMap, churnData>>

\* filterSymbols, second loop: one .tsx/.jsx file
ScanFile ==
  /\ pc = "scan" /\ i <= Len(tsxFiles)
  /\ symbols' = ScanOne(symbols, tsxFiles[i], ReadFile(tsxFiles[i]))
  /\ readLog' = Append(readLog, tsxFiles[i])
  /\ i' = i + 1
  /\ UNCHANGED <<inputs, outputs, pc, nFiltered, tsxFiles, featureMap, churnData>>

\* filterSymbols returns
ReturnSymbols ==
  /\ pc = "scan" /\ i > Len(tsxFiles)
  /\ pc' = "classify" /\ i' = 1
  /\ UNCHANGED <<inputs, readLog, outputs, symbols, nFiltered, tsxFiles, featureMap, churnData>>

\* "3. Classify each symbol": one symbol
ClassifyStep ==
  /\ pc = "classify" /\ i <= Len(symbols)
  /\ symbols' = [symbols EXCEPT
                   ![i].feature = classifySymbol(symbols[i].file, features).id,
                   ![i].featureName = classifySymbol(symbols[i].file, features).name]
  /\ i' = i + 1
  /\ UNCHANGED <<inputs, readLog, outputs, pc, nFiltered, tsxFiles, featureMap, churnData>>

\* "4. Aggregate by feature": the buckets are seeded
SeedStep ==
  /\ pc = "classify" /\ i > Len(symbols)
  /\ featureMap' = SeedBuckets(features)
  /\ pc' = "aggregate" /\ i' = 1
  /\ UNCHANGED <<inputs, readLog, outputs, symbols, nFiltered, tsxFiles, churnData>>

\* the aggregation loop: one symbol
AggregateStep ==
  /\ pc = "aggregate" /\ i <= Len(symbols)
  /\ featureMap' = AggregateOne(featureMap, symbols[i])
  /\ i' = i + 1
  /\ UNCHANGED <<inputs, readLog, outputs, pc, symbols, nFiltered, tsxFiles, churnData>>

\* "5. Overlay git churn if --since provided": the history is read
LoadChurn ==
  /\ pc = "aggregate" /\ i > Len(symbols) /\ since # null
  /\ churnData' = getGitChurn(gitLog)
  /\ pc' = "churn" /\ i' = 1
  /\ UNCHANGED <<inputs, readLog, outputs, symbols, nFiltered, tsxFiles, featureMap>>

\* without --since the overlay is skipped
SkipChurn ==
  /\ pc = "aggregate" /\ i > Len(symbols) /\ since = null
  /\ pc' = "rank" /\ i' = 1
  /\ UNCHANGED <<inputs, readLog, outputs, symbols, nFiltered, tsxFiles, featureMap, churnData>>

\* "Aggregate churn by feature": one churn record
ChurnStep ==
  /\ pc = "churn" /\ i <= Len(churnData)
  /\ featureMap' = ChurnOne(featureMap, churnData[i], features)
  /\ i' = i + 1
  /\ UNCHANGED <<inputs, readLog, outputs, pc, symbols, nFiltered, tsxFiles, churnData>>

ChurnDone ==
  /\ pc = "churn" /\ i > Len(churnData)
  /\ pc' = "score" /\ i' = 1
  /\ UNCHANGED <<inputs, readLog, outputs, symbols, nFiltered, tsxFiles, featureMap, churnData>>

\* "Compute hotspot scores and trim topFiles": one bucket
ScoreStep ==
  /\ pc = "score" /\ i <= Len(featureMap)
  /\ featureMap' = [featureMap EXCEPT ![i] = ScoreOne(featureMap[i])]
  /\ i' = i + 1
  /\ UNCHANGED <<inputs, readLog, outputs, pc, symbols, nFiltered, tsxFiles, churnData>>

ScoreDone ==
  /\ pc = "score" /\ i > Len(featureMap)
  /\ pc' = "rank" /\ i' = 1
  /\ UNCHANGED <<inputs, readLog, outputs, symbols, nFiltered, tsxFiles, featureMap, churnData>>

\* "Sort by total symbols (or hotspot score if churn available)"
Rank ==
  /\ pc = "rank"
  /\ sorted' = RankSort(RankFilter(featureMap), since)
  /\ pc' = "stats"
  /\ UNCHANGED <<inputs, readLog, i, symbols, nFiltered, tsxFiles, featureMap, churnData,
                 coveragePct, jsonFile, stdout>>

\* "Stats"
Stats ==
  /\ pc = "stats"
  /\ coveragePct' = CoveragePct(UncatCount(featureMap), Len(symbols))
  /\ pc' = "json"
  /\ UNCHANGED <<inputs, readLog, i, symbols, nFiltered, tsxFiles, featureMap, churnData,
                 sorted, jsonFile, stdout>>

\* "JSON output": written when --json names a file
WriteJson ==
  /\ pc = "json"
  /\ jsonFile' =
       IF jsonOut # null
       THEN <<[since |-> since,
               totals |-> [symbols |-> Len(symbols),
                           functions |-> TotalOfKind(symbols, "function"),
                           methods |-> TotalOfKind(symbols, "method"),
                           classes |-> TotalOfKind(symbols, "class")],
               coverageRate |-> coveragePct \o "%",
               features |-> sorted,
               symbols |-> [k \in 1..Len(symbols) |->
                              [name |-> symbols[k].name, kind |-> symbols[k].kind,
                               file |-> symbols[k].file, line |-> symbols[k].line,
                               feature |-> symbols[k].feature]]]>>
       ELSE jsonFile
  /\ pc' = "report"
  /\ UNCHANGED <<inputs, readLog, i, symbols, nFiltered, tsxFiles, featureMap, churnData,
                 sorted, coveragePct, stdout>>

\* "Text report": the lines of the summary
TextReport ==
  /\ pc = "report"
  /\ stdout' =
       <<"  Functions:    " \o ToString(TotalOfKind(symbols, "function")),
         "  Methods:      " \o ToString(TotalOfKind(symbols, "method")),
         "  Classes:      " \o ToString(TotalOfKind(symbols, "class")),
         "  Total:        " \o ToString(Len(symbols)),
         "  Categorized:  " \o coveragePct \o "%">>
       \o (IF since # null THEN <<"  Churn since:  " \o since>> ELSE <<>>)
  /\ pc' = "done"
  /\ UNCHANGED <<inputs, readLog, i, symbols, nFiltered, tsxFiles, featureMap, churnData,
                 sorted, coveragePct, jsonFile>>

Next ==
  \/ FindCtags
  \/ RunCtags
  \/ FilterEntry
  \/ CollectTsxFiles
  \/ ScanFile
  \/ ReturnSymbols
  \/ ClassifyStep
  \/ SeedStep
  \/ AggregateStep
  \/ LoadChurn
  \/ SkipChurn
  \/ ChurnStep
  \/ ChurnDone
  \/ ScoreStep
  \/ ScoreDone
  \/ Rank
  \/ Stats
  \/ WriteJson
  \/ TextReport

Spec == Init /\ [][Next]_vars

TypeOK ==
  /\ pc \in {"findCtags", "runCtags", "exit1", "filter", "scan", "classify", "aggregate",
            "churn", "score", "rank", "stats", "json", "report", "done"}
  /\ \A k \in 1..Len(symbols) : symbols[k].kind \in {"function", "method", "class"}

\* ------------------------------------------------------------------------
\* Properties.
\* ------------------------------------------------------------------------
\* how many symbols the classification loop has been through
Classified ==
  IF pc \in {"filter", "scan"} THEN 0
  ELSE IF pc = "classify" THEN i - 1
  ELSE Len(symbols)

\* how many symbols the aggregation loop has been through
Aggregated ==
  IF pc \in {"filter", "scan", "classify"} THEN 0
  ELSE IF pc = "aggregate" THEN i - 1
  ELSE Len(symbols)

\* the path with a leading "/" and every backslash turned into "/"
SlashPath(relPath) ==
  [k \in 1..(Len(relPath) + 1) |->
     IF k = 1 THEN "/"
     ELSE IF Ch(relPath, k - 1) = "\\" THEN "/" ELSE Ch(relPath, k - 1)]

\* the substring p occurs in the character sequence q
Occurs(p, q) ==
  \E a \in 0..(Len(q) - Len(p)) : \A k \in 1..Len(p) : q[a + k] = Ch(p, k)

\* the indices of the rules with a path substring contained in the path
MatchingRules(relPath) ==
  {j \in 1..Len(features) :
     \E q \in 1..Len(features[j].paths) : Occurs(features[j].paths[q], SlashPath(relPath))}

Least(S) == CHOOSE x \in S : \A y \in S : x <= y

\* C1: classification is total. Once the classification loop has been
\* through a symbol (normalizer-produced or orphan-synthesized), its feature
\* is the id of a configured rule or "uncategorized", and it is
\* "uncategorized" exactly when no path substring of any rule is contained in
\* its normalized path.
ClassificationTotal ==
  \A k \in 1..Classified :
    /\ symbols[k].feature \in {features[j].id : j \in 1..Len(features)} \cup {"uncategorized"}
    /\ symbols[k].feature = "uncategorized" <=> MatchingRules(symbols[k].file) = {}

\* a finished run with an orphan-synthesized symbol in a rule's feature, a
\* symbol matched only by the second substring of a rule, and an
\* uncategorized symbol
ClassificationTotalWitness ==
  /\ pc = "done"
  /\ \E k \in 1..Len(symbols) : k > nFiltered /\ symbols[k].feature # "uncategorized"
  /\ \E k \in 1..Len(symbols) : symbols[k].feature = "uncategorized"
  /\ \E k \in 1..Len(symbols) : symbols[k].file = "lib/util.ts" /\ symbols[k].feature = "core"

\* C2: first match wins. A classified symbol whose path is matched by one or
\* more rules carries the id and name of the matching rule declared first,
\* and classifySymbol returns that rule for every file path of the history.
FirstMatchWins ==
  /\ \A k \in 1..Classified :
       MatchingRules(symbols[k].file) # {} =>
         /\ symbols[k].feature = features[Least(MatchingRules(symbols[k].file))].id
         /\ symbols[k].featureName = features[Least(MatchingRules(symbols[k].file))].name
  /\ \A k \in 1..Len(gitLog) :
       MatchingRules(gitLog[k].path) # {} =>
         classifySymbol(gitLog[k].path, features).id
           = features[Least(MatchingRules(gitLog[k].path))].id

\* a classified symbol matched by two rules of different ids, the later one
\* through its first substring, that carries the earlier rule's id
FirstMatchWinsWitness ==
  \E k \in 1..Classified :
    /\ MatchingRules(symbols[k].file) = {1, 2}
    /\ features[1].id # features[2].id
    /\ Occurs(features[2].paths[1], SlashPath(symbols[k].file))
    /\ symbols[k].feature = features[1].id

RECURSIVE SumKinds(_, _)
SumKinds(m, k) ==
  IF k > Len(m) THEN 0
  ELSE m[k].functions + m[k].methods + m[k].classes + SumKinds(m, k + 1)

CountOf(id, kinds) ==
  Cardinality({k \in 1..Aggregated : symbols[k].feature = id /\ symbols[k].kind \in kinds})

\* C3: count conservation. While and after the aggregation loop runs, the
\* buckets have distinct ids, every bucket's function, method and class
\* counters are the numbers of aggregated symbols of its feature and that
\* kind, its total is their sum, and the kind counters of all buckets add up
\* to the number of symbols aggregated (all of them at the end).
CountConservation ==
  pc \in {"aggregate", "churn", "score", "done"} =>
    /\ \A a, b \in 1..Len(featureMap) : featureMap[a].id = featureMap[b].id => a = b
    /\ \A b \in 1..Len(featureMap) :
         /\ featureMap[b].functions = CountOf(featureMap[b].id, {"function"})
         /\ featureMap[b].methods = CountOf(featureMap[b].id, {"method"})
         /\ featureMap[b].classes = CountOf(featureMap[b].id, {"class"})
         /\ featureMap[b].total = CountOf(featureMap[b].id, {"function", "method", "class"})
    /\ SumKinds(featureMap, 1) = Aggregated

\* a finished run whose symbols of three kinds went to three buckets
CountConservationWitness ==
  /\ pc = "done"
  /\ Len(symbols) >= 4
  /\ Cardinality({b \in 1..Len(featureMap) : featureMap[b].total > 0}) >= 3
  /\ {symbols[k].kind : k \in 1..Len(symbols)} = {"function", "method", "class"}

\* C4: at the end of a run a bucket has a hotspot score if and only if its
\* churn total and its commit total are both positive (an absent total
\* counts as 0, as in every bucket of a run without --since).
HotspotIffChurnAndCommits ==
  pc = "done" =>
    \A b \in 1..Len(featureMap) :
      Has(featureMap[b], "hotspotScore")
        <=> (OrZero(featureMap[b], "churn") > 0 /\ OrZero(featureMap[b], "commits") > 0)

\* a finished run with a scored bucket, a bucket with churn and no commits,
\* and a bucket with no churn record at all
HotspotIffChurnAndCommitsWitness ==
  /\ pc = "done"
  /\ \E b \in 1..Len(featureMap) : Has(featureMap[b], "hotspotScore")
  /\ \E b \in 1..Len(featureMap) :
       /\ OrZero(featureMap[b], "churn") > 0
       /\ Has(featureMap[b], "commits") /\ featureMap[b].commits = 0
       /\ ~Has(featureMap[b], "hotspotScore")
  /\ \E b \in 1..Len(featureMap) : ~Has(featureMap[b], "churn")

RECURSIVE SumChurn(_, _, _)
SumChurn(id, field, k) ==
  IF k > Len(churnData) THEN 0
  ELSE (IF classifySymbol(churnData[k].path, features).id = id
        THEN churnData[k][field] ELSE 0) + SumChurn(id, field, k + 1)

\* C5: at the end of a run with --since, a bucket whose churn and commit
\* totals are positive has the score r = round(churn * sqrt(commits)) of
\* its summed churn and summed commits: (2r - 1)^2 <= 4 churn^2 commits <
\* (2r + 1)^2; churn 100 with 4 commits scores 200, churn 50 with 1 commit 50.
HotspotScoreFormula ==
  pc = "done" /\ since # null =>
    \A b \in 1..Len(featureMap) :
      LET churn == OrZero(featureMap[b], "churn")
          commits == OrZero(featureMap[b], "commits")
          r == featureMap[b].hotspotScore
      IN  churn > 0 /\ commits > 0 =>
            /\ churn = SumChurn(featureMap[b].id, "churn", 1)
            /\ commits = SumChurn(featureMap[b].id, "commits", 1)
            /\ (2 * r - 1) * (2 * r - 1) <= 4 * churn * churn * commits
            /\ 4 * churn * churn * commits < (2 * r + 1) * (2 * r + 1)
            /\ (churn = 100 /\ commits = 4 => r = 200)
            /\ (churn = 50 /\ commits = 1 => r = 50)

\* a finished run with a bucket of two files, of churn 50 each with 1 and 3
\* commits, scored 200 (the per-file scores are 50 and 87)
HotspotScoreFormulaWitness ==
  /\ pc = "done"
  /\ \E b \in 1..Len(featureMap) :
       /\ Has(featureMap[b], "topFiles") /\ Len(featureMap[b].topFiles) = 2
       /\ featureMap[b].churn = 100 /\ featureMap[b].commits = 4
       /\ featureMap[b].hotspotScore = 200

\* the raw entry the first loop of filterSymbols is about to look at
AtEntry == pc = "filter" /\ i <= Len(entries)

\* the step appends one symbol of the kind, with the entry's name, file
\* (relative to the root) and line
Kept(kind) ==
  /\ Len(symbols') = Len(symbols) + 1
  /\ SubSeq(symbols', 1, Len(symbols)) = symbols
  /\ symbols'[Len(symbols')].name = entries[i].name
  /\ symbols'[Len(symbols')].kind = kind
  /\ "/r/" \o symbols'[Len(symbols')].file = entries[i].path
  /\ symbols'[Len(symbols')].line = entries[i].line

\* the name is one of the four noise names or begins with two underscores
NoiseName(name) ==
  \/ name \in {"<lambda>", "<anonymous>", "anonymous", "module.exports"}
  \/ (Len(name) >= 2 /\ Ch(name, 1) = "_" /\ Ch(name, 2) = "_")

\* C6: noise-name filtering. The normalizer step for a raw entry whose name
\* is a noise name or starts with "__" leaves the symbol list as it is,
\* whatever the entry's kind and file.
NoiseNamesDropped ==
  [][AtEntry /\ NoiseName(entries[i].name) => symbols' = symbols]_vars

\* the normalizer has been through a function entry named "__internalHelper"
\* and kept nothing
NoiseNamesDroppedWitness ==
  /\ pc = "filter" /\ i = 2
  /\ entries[1].name = "__internalHelper" /\ entries[1].kind = "function"
  /\ symbols = <<>>

\* C7: constant promotion. The normalizer step for a raw entry of kind
\* constant appends a symbol only if the name matches the component pattern
\* or the hook pattern, or the file ends in .tsx and the name is a
\* lowercase-initial alphanumeric identifier, and the symbol it appends is
\* of kind function; the step for an entry whose kind is none of function,
\* generator, method, class, object, struct and constant appends nothing.
ConstantPromotion ==
  [][/\ AtEntry /\ entries[i].kind = "constant" =>
          \/ symbols' = symbols
          \/ /\ Kept("function")
             /\ \/ isPascalCase(entries[i].name)
                \/ isHook(entries[i].name)
                \/ (EndsWith(entries[i].path, ".tsx") /\ isCamelCase(entries[i].name))
     /\ AtEntry /\ entries[i].kind \notin {"function", "generator", "method", "class",
                                           "object", "struct", "constant"} =>
          symbols' = symbols]_vars

\* the normalizer has kept the constant "useWidgetState" of a .jsx file as a
\* function
ConstantPromotionWitness ==
  /\ pc = "filter" /\ i = 2
  /\ entries[1].name = "useWidgetState" /\ entries[1].kind = "constant"
  /\ EndsWith(entries[1].path, ".jsx")
  /\ Len(symbols) = 1 /\ symbols[1].kind = "function"

\* C8: kind mapping as the README documents it. The normalizer step for a
\* raw entry with no noise name keeps it as a class symbol when its kind is
\* class, object or struct, as a method symbol when its kind is method, and
\* as a function symbol when its kind is function or generator.
DocumentedKindMapping ==
  [][AtEntry /\ ~NoiseName(entries[i].name) =>
       /\ entries[i].kind \in {"class", "object", "struct"} => Kept("class")
       /\ entries[i].kind = "method" => Kept("method")
       /\ entries[i].kind \in {"function", "generator"} => Kept("function")]_vars

\* the scan of the .tsx/.jsx files is over
Scanned == pc \notin {"findCtags", "runCtags", "exit1", "filter", "scan"}

SamePair(a, b) == symbols[a].file = symbols[b].file /\ symbols[a].name = symbols[b].name

\* C9 as claimed: once the orphan scan is over, no two symbols of the list
\* have the same file and the same name.
NoDuplicatePairs ==
  Scanned => \A a, b \in 1..Len(symbols) : SamePair(a, b) => a = b

\* C9 as amended: the orphan scan adds no duplicate. At every point of the
\* run an orphan-synthesized symbol (one behind the normalizer's symbols)
\* shares its file and name with no other symbol of the list.
OrphansNeverDuplicate ==
  \A a, b \in 1..Len(symbols) :
    pc # "filter" /\ a > nFiltered /\ SamePair(a, b) => a = b

\* the scan of a file with two "export ... function Banner" heads is over
\* and left one orphan symbol Banner
OrphansNeverDuplicateWitness ==
  /\ Scanned /\ fsys = FsB
  /\ \E a \in 1..Len(symbols) : a > nFiltered /\ symbols[a].name = "Banner"
  /\ Cardinality({p \in 1..Len(FsB["src/api/Banner.tsx"].text) :
                    LET m == ExportReAt(FsB["src/api/Banner.tsx"].text, p)
                    IN  m.ok /\ m.name = "Banner"}) = 2

\* the positions of the file text where a declaration head
\* "export [default] const|function Name" with that Name starts
Heads(text, name) ==
  {p \in 1..Len(text) : ExportReAt(text, p).ok /\ ExportReAt(text, p).name = name}

\* 1 + the number of newline characters before position p
LineOf(text, p) == 1 + Cardinality({q \in 1..(p - 1) : Ch(text, q) = "\n"})

\* the names declared by some head of the text
HeadNames(text) == {ExportReAt(text, p).name : p \in {q \in 1..Len(text) : ExportReAt(text, q).ok}}

\* C10: orphan recovery. Once the scan is over, for every .tsx/.jsx file of
\* the raw entries that could be read and every Name a declaration head of
\* the file declares: if no normalizer-produced symbol of the file is named
\* Name, the list holds exactly one symbol of that file and name, it is of
\* kind function and its line is 1 + the number of newlines before the first
\* head of Name; if a normalizer-produced symbol carries it, no symbol of
\* that file and name was added.
OrphanRecovery ==
  Scanned =>
    \A f \in {tsxFiles[k] : k \in 1..Len(tsxFiles)} :
      ReadFile(f).ok =>
        \A name \in HeadNames(ReadFile(f).text) :
          LET carriers == {k \in 1..Len(symbols) :
                             symbols[k].file = f /\ symbols[k].name = name}
              first == Least(Heads(ReadFile(f).text, name))
          IN  IF \E k \in carriers : k <= nFiltered
              THEN \A k \in carriers : k <= nFiltered
              ELSE /\ Cardinality(carriers) = 1
                   /\ \A k \in carriers :
                        /\ symbols[k].kind = "function"
                        /\ symbols[k].line = LineOf(ReadFile(f).text, first)

\* the scan is over and added the function "Banner" of line 2, which the
\* extractor had not reported
OrphanRecoveryWitness ==
  /\ Scanned /\ fsys = FsA
  /\ \E k \in 1..Len(symbols) :
       /\ symbols[k].name = "Banner" /\ symbols[k].file = "src/api/Banner.tsx"
       /\ k > nFiltered /\ symbols[k].line = 2 /\ symbols[k].kind = "function"

\* C11: a file the orphan scan cannot read is skipped and nothing aborts.
\* The step of the scan at a file readFileSync throws on leaves the symbol
\* list as it is and moves to the next file; the scan is left only once
\* every file of tsxFiles has been visited, and it is left for the
\* classification.
UnreadableFileSkipped ==
  [][/\ (pc = "scan" /\ i <= Len(tsxFiles) /\ ~ReadFile(tsxFiles[i]).ok)
          => (symbols' = symbols /\ pc' = "scan" /\ i' = i + 1)
     /\ (pc = "scan" /\ pc' # "scan")
          => (i > Len(tsxFiles) /\ pc' = "classify" /\ symbols' = symbols)]_vars

\* the run is over; its first .tsx/.jsx file could not be read while the
\* list already held a symbol, the file after it was scanned and gave the
\* orphan "Panel", and every symbol reached a bucket
UnreadableFileSkippedWitness ==
  /\ pc = "done" /\ Len(tsxFiles) = 2 /\ nFiltered > 0
  /\ ~ReadFile(tsxFiles[1]).ok /\ ReadFile(tsxFiles[2]).ok
  /\ \E k \in 1..Len(symbols) :
       k > nFiltered /\ symbols[k].name = "Panel" /\ symbols[k].file = tsxFiles[2]
  /\ SumKinds(featureMap, 1) = Len(symbols)

\* the decimal strings toFixed(1) gives for the percentages 0.0 .. 100.0
Percentages == {ToFixed1(tenths) : tenths \in 0..1000}

\* C12: a run with zero canonical symbols reports a valid numeric
\* percentage: once the report is printed, coveragePct is a decimal
\* percentage, and so are the "Categorized" line of the text report and
\* the coverageRate of the JSON file when one was written; none is NaN or
\* an infinity.
ZeroSymbolsCoverageNumeric ==
  (pc = "done" /\ Len(symbols) = 0) =>
    /\ coveragePct \in Percentages
    /\ \E pct \in Percentages : stdout[5] = "  Categorized:  " \o pct \o "%"
    /\ jsonFile # <<>> => \E pct \in Percentages : jsonFile[1].coverageRate = pct \o "%"

\* C13: the coverage rate of a run with t > 0 symbols, u of them in the
\* uncategorized bucket, is (1 - u / t) * 100 rounded to one decimal: the
\* reported string is the decimal of a number of tenths that is at most
\* half a tenth away from 1000 * (t - u) / t, the text report and the JSON
\* file carry that string followed by "%", and t = 10, u = 3 gives "70.0".
CoverageRateFormula ==
  (pc = "done" /\ Len(symbols) > 0) =>
    LET t == Len(symbols)
        u == featureMap[MapIndex(featureMap, "uncategorized")].total
    IN  /\ \E tenths \in 0..1000 :
             /\ coveragePct = ToFixed1(tenths)
             /\ 2 * (tenths * t - 1000 * (t - u)) <= t
             /\ 2 * (1000 * (t - u) - tenths * t) <= t
        /\ (t = 10 /\ u = 3) => coveragePct = "70.0"
        /\ (t = 3 /\ u = 1) => coveragePct = "66.7"
        /\ stdout[5] = "  Categorized:  " \o coveragePct \o "%"
        /\ jsonFile # <<>> => jsonFile[1].coverageRate = coveragePct \o "%"

\* a run of ten symbols, three of them uncategorized, printed and wrote 70.0%
CoverageRateFormulaWitness ==
  /\ pc = "done" /\ Len(symbols) = 10
  /\ featureMap[MapIndex(featureMap, "uncategorized")].total = 3
  /\ stdout[5] = "  Categorized:  70.0%"
  /\ jsonFile # <<>> /\ jsonFile[1].coverageRate = "70.0%"

\* the ranked list has been computed
Ranked == pc \in {"stats", "json", "report", "done"}

\* C14: with a churn window the ranked list is ordered by hotspot score
\* descending wherever the score is defined: of any two buckets of the
\* list that both have a hotspotScore, the one placed first has a score at
\* least as high, also when the list holds buckets without a score.
HotspotOrderWhereDefined ==
  (Ranked /\ since # null) =>
    \A a, b \in 1..Len(sorted) :
      (a < b /\ Has(sorted[a], "hotspotScore") /\ Has(sorted[b], "hotspotScore"))
        => sorted[a].hotspotScore >= sorted[b].hotspotScore

\* C15: without a churn window the ranked list is ordered by total
\* descending: a bucket placed earlier has a total at least as large as
\* every bucket placed later.
TotalOrderWithoutWindow ==
  (Ranked /\ since = null) =>
    \A a, b \in 1..Len(sorted) : a < b => sorted[a].total >= sorted[b].total

\* a run without --since ranked three buckets, and put a bucket of a larger
\* total before one that precedes it in featureMap
TotalOrderWithoutWindowWitness ==
  /\ Ranked /\ since = null /\ Len(sorted) >= 3
  /\ \E a, b \in 1..Len(sorted) :
       /\ a < b /\ sorted[a].total > sorted[b].total
       /\ MapIndex(featureMap, sorted[a].id) > MapIndex(featureMap, sorted[b].id)

\* C16: the ranked list holds exactly the buckets with total > 0 or
\* churn > 0. Every bucket of featureMap with a total or a churn above
\* zero is in the list exactly once, as it is in featureMap; a bucket with
\* zero total and zero or absent churn is not in the list; and the list
\* holds nothing else.
RankedExactlyNonEmpty ==
  Ranked =>
    /\ \A k \in 1..Len(featureMap) :
         LET f == featureMap[k]
             places == {a \in 1..Len(sorted) : sorted[a].id = f.id}
         IN  IF f.total > 0 \/ OrZero(f, "churn") > 0
             THEN Cardinality(places) = 1 /\ \A a \in places : sorted[a] = f
             ELSE places = {}
    /\ \A a \in 1..Len(sorted) : MapIndex(featureMap, sorted[a].id) # 0

\* a ranked list that holds a bucket of no symbol that the history filled,
\* while a bucket of no symbol and no churn was left out
RankedExactlyNonEmptyWitness ==
  /\ Ranked
  /\ \E a \in 1..Len(sorted) : sorted[a].total = 0 /\ OrZero(sorted[a], "churn") > 0
  /\ \E k \in 1..Len(featureMap) :
       /\ featureMap[k].total = 0 /\ OrZero(featureMap[k], "churn") = 0
       /\ \A a \in 1..Len(sorted) : sorted[a].id # featureMap[k].id

\* C18: an extractor that is unavailable or fails is fatal. When no
\* Universal Ctags is found, when it cannot be spawned, or when it runs and
\* exits with a failure status, the process never gets past runCtags other
\* than by exiting with status 1: no symbol is filtered, no bucket is
\* built and nothing is written or printed.
ExtractorFailureFatal ==
  ctags # "ok" =>
    /\ pc \in {"findCtags", "runCtags", "exit1"}
    /\ symbols = <<>> /\ featureMap = <<>> /\ sorted = <<>>
    /\ jsonFile = <<>> /\ stdout = <<>>

\* the fields the overlay sets
ChurnFields == {"commits", "churn", "hotspotScore", "topFiles"}

\* the buckets whose topFiles holds an entry of that path
HoldersOf(filePath) ==
  {k \in 1..Len(featureMap) :
     /\ Has(featureMap[k], "topFiles")
     /\ \E p \in 1..Len(featureMap[k].topFiles) : featureMap[k].topFiles[p].path = filePath}

RECURSIVE TopFilesCount(_)
TopFilesCount(k) ==
  IF k > Len(featureMap) THEN 0
  ELSE (IF Has(featureMap[k], "topFiles") THEN Len(featureMap[k].topFiles) ELSE 0)
       + TopFilesCount(k + 1)

\* C19: the overlay is active only with a time-window boundary. Without
\* one the history is never read (the run is never in the overlay, and
\* churnData stays empty) and no bucket, in featureMap or in the ranked
\* list, has commits, churn, hotspotScore or topFiles. With one, while the
\* records are folded and before topFiles is trimmed, every record folded
\* so far is held by exactly one bucket, the one the classifier names for
\* its path, once and with its commits and churn, and the buckets hold
\* nothing but these records.
OverlayOnlyWithWindow ==
  /\ since = null =>
       /\ pc \notin {"churn", "score"} /\ churnData = <<>>
       /\ \A k \in 1..Len(featureMap) : DOMAIN featureMap[k] \cap ChurnFields = {}
       /\ \A a \in 1..Len(sorted) : DOMAIN sorted[a] \cap ChurnFields = {}
  /\ (since # null /\ (pc = "churn" \/ (pc = "score" /\ i = 1))) =>
       LET folded == IF pc = "churn" THEN i - 1 ELSE Len(churnData)
       IN  /\ \A j \in 1..folded :
                /\ HoldersOf(churnData[j].path)
                     = {MapIndex(featureMap, classifySymbol(churnData[j].path, features).id)}
                /\ \A k \in HoldersOf(churnData[j].path) :
                     Cardinality({p \in 1..Len(featureMap[k].topFiles) :
                                    featureMap[k].topFiles[p]
                                      = [path |-> churnData[j].path,
                                         commits |-> churnData[j].commits,
                                         churn |-> churnData[j].churn]}) = 1
           /\ TopFilesCount(1) = folded

\* with a window, two records have been folded, one into the bucket of a
\* rule and one into the uncategorized bucket
OverlayOnlyWithWindowWitness ==
  /\ since # null /\ pc = "score" /\ i = 1 /\ Len(churnData) = 2
  /\ HoldersOf(churnData[1].path) # HoldersOf(churnData[2].path)
  /\ \E j \in 1..2 :
       HoldersOf(churnData[j].path) = {MapIndex(featureMap, "uncategorized")}

\* the overlay is over: every bucket has been scored and trimmed
Overlaid == since # null /\ (pc = "rank" \/ Ranked)

\* the records of churnData the classifier gives to the bucket of that id
RecordsOf(id) ==
  {j \in 1..Len(churnData) : classifySymbol(churnData[j].path, features).id = id}

\* the place in churnData of the record of that path
PlaceOf(filePath) == CHOOSE j \in 1..Len(churnData) : churnData[j].path = filePath

\* C20: top-files trimming. After the overlay the topFiles of every bucket
\* has at most 10 entries, as many as the bucket has records when these are
\* fewer; each entry is a record of the bucket and no record is entered
\* twice; the entries are in churn descending order; no record left out has
\* a churn strictly greater than an entry; and entries of equal churn are
\* in the order their records were folded.
TopFilesTrimmed ==
  Overlaid =>
    \A k \in 1..Len(featureMap) :
      Has(featureMap[k], "topFiles") =>
        LET top == featureMap[k].topFiles
            recs == RecordsOf(featureMap[k].id)
            kept == {PlaceOf(top[p].path) : p \in 1..Len(top)}
        IN  /\ Len(top) <= 10
            /\ Len(top) = IF Cardinality(recs) < 10 THEN Cardinality(recs) ELSE 10
            /\ kept \subseteq recs /\ Cardinality(kept) = Len(top)
            /\ \A p \in 1..Len(top) :
                 top[p] = [path |-> top[p].path,
                           commits |-> churnData[PlaceOf(top[p].path)].commits,
                           churn |-> churnData[PlaceOf(top[p].path)].churn]
            /\ \A p, q \in 1..Len(top) :
                 /\ p < q => top[p].churn >= top[q].churn
                 /\ (p < q /\ top[p].churn = top[q].churn)
                      => PlaceOf(top[p].path) < PlaceOf(top[q].path)
            /\ \A j \in recs \ kept : \A p \in 1..Len(top) :
                 churnData[j].churn <= top[p].churn

\* a bucket that was given more than ten records of several churns, ties
\* among them, has been trimmed to ten
TopFilesTrimmedWitness ==
  /\ Overlaid
  /\ \E k \in 1..Len(featureMap) :
       /\ Has(featureMap[k], "topFiles")
       /\ Cardinality(RecordsOf(featureMap[k].id)) > 10
       /\ Len(featureMap[k].topFiles) = 10
       /\ \E p, q \in 1..10 :
            p < q /\ featureMap[k].topFiles[p].churn = featureMap[k].topFiles[q].churn
       /\ \E p, q \in 1..10 :
            featureMap[k].topFiles[p].churn > featureMap[k].topFiles[q].churn

\* the aggregation loop run over a list of symbols, from its k-th symbol
RECURSIVE AggregateAll(_, _, _)
AggregateAll(m, syms, k) ==
  IF k > Len(syms) THEN m ELSE AggregateAll(AggregateOne(m, syms[k]), syms, k + 1)

\* the overlay loop run over a list of churn records, from its k-th record
RECURSIVE ChurnAll(_, _, _)
ChurnAll(m, files, k) ==
  IF k > Len(files) THEN m ELSE ChurnAll(ChurnOne(m, files[k], features), files, k + 1)

\* the list in the order a permutation of its indices gives
Permuted(list, perm) == [k \in 1..Len(list) |-> list[perm[k]]]

\* the counters and totals of every bucket
Counters(m) ==
  [k \in 1..Len(m) |->
     [id |-> m[k].id, functions |-> m[k].functions, methods |-> m[k].methods,
      classes |-> m[k].classes, total |-> m[k].total,
      commits |-> OrZero(m[k], "commits"), churn |-> OrZero(m[k], "churn")]]

\* C21: aggregation is order-independent. When the aggregation loop is
\* over, running it over any permutation of the symbol list gives the
\* function, method, class and total counters of every bucket that
\* featureMap holds; when the overlay loop is over, running it over any
\* permutation of the churn records gives the commits and churn totals of
\* every bucket that featureMap holds. (Lists of up to MaxPermuted elements.)
AggregationOrderIndependent ==
  /\ (pc = "aggregate" /\ i > Len(symbols) /\ Len(symbols) <= MaxPermuted) =>
       \A perm \in Permutations(1..Len(symbols)) :
         Counters(AggregateAll(SeedBuckets(features), Permuted(symbols, perm), 1))
           = Counters(featureMap)
  /\ (pc = "churn" /\ i > Len(churnData) /\ Len(churnData) <= MaxPermuted
        /\ Len(symbols) <= MaxPermuted) =>
       \A perm \in Permutations(1..Len(churnData)) :
         Counters(ChurnAll(AggregateAll(SeedBuckets(features), symbols, 1),
                           Permuted(churnData, perm), 1))
           = Counters(featureMap)

\* the overlay loop is over; one bucket received two symbols of different
\* kinds and two churn records of different churn
AggregationOrderIndependentWitness ==
  /\ pc = "churn" /\ i > Len(churnData) /\ Len(churnData) <= MaxPermuted
  /\ Len(symbols) <= MaxPermuted
  /\ \E a, b \in 1..Len(symbols) :
       symbols[a].feature = symbols[b].feature /\ symbols[a].kind # symbols[b].kind
  /\ \E a, b \in 1..Len(churnData) :
       /\ a # b /\ churnData[a].churn # churnData[b].churn
       /\ classifySymbol(churnData[a].path, features).id
            = classifySymbol(churnData[b].path, features).id

\* C22: symbol-level and file-level attribution agree. While the churn
\* records are folded and before topFiles is trimmed, a record whose path
\* is the file of a symbol is held by the bucket of that symbol's feature
\* and by no other bucket.
AttributionConsistent ==
  (since # null /\ (pc = "churn" \/ (pc = "score" /\ i = 1))) =>
    \A j \in 1..(IF pc = "churn" THEN i - 1 ELSE Len(churnData)) :
      \A a \in 1..Len(symbols) :
        symbols[a].file = churnData[j].path =>
          HoldersOf(churnData[j].path) = {MapIndex(featureMap, symbols[a].feature)}

\* every record is folded; a record and a symbol of one file written with
\* backslashes sit in the bucket of a rule, and so do a record and a
\* symbol of a file written with slashes
AttributionConsistentWitness ==
  /\ since # null /\ pc = "score" /\ i = 1
  /\ \E a, b \in 1..Len(symbols) : \E j, h \in 1..Len(churnData) :
       /\ symbols[a].file = churnData[j].path /\ Includes(symbols[a].file, "\\")
       /\ symbols[b].file = churnData[h].path /\ ~Includes(symbols[b].file, "\\")
       /\ symbols[a].feature # "uncategorized" /\ symbols[b].feature # "uncategorized"
       /\ HoldersOf(churnData[j].path) = {MapIndex(featureMap, symbols[a].feature)}
       /\ HoldersOf(churnData[h].path) = {MapIndex(featureMap, symbols[b].feature)}

\* no rule before the j-th has a substring contained in the path
FirstCandidate(relPath, j) == \A h \in 1..(j - 1) : h \notin MatchingRules(relPath)

\* C23 as stated: a rule whose path substring is "/api/" also matches a
\* path that contains "/apiary/" and no "/api/": a classified symbol of
\* such a file, no earlier rule matching, is in that rule's feature.
ApiRuleMatchesApiary ==
  \A k \in 1..Classified : \A j \in 1..Len(features) :
    (/\ features[j].paths = <<"/api/">>
     /\ Occurs("/apiary/", SlashPath(symbols[k].file))
     /\ ~Occurs("/api/", SlashPath(symbols[k].file))
     /\ FirstCandidate(symbols[k].file, j))
      => symbols[k].feature = features[j].id

\* C23, amended: containment is tested without regard to segment
\* boundaries, so a rule whose substring is "/api" (no closing separator)
\* matches a path that contains "/apiary/" and no "/api/", and a
\* classified symbol of such a file, no earlier rule matching, is in that
\* rule's feature; a rule whose only substring is "/api/" does not match
\* such a path, and the symbol is not in its feature.
SubstringOverMatch ==
  \A k \in 1..Classified : \A j \in 1..Len(features) :
    (/\ Occurs("/apiary/", SlashPath(symbols[k].file))
     /\ ~Occurs("/api/", SlashPath(symbols[k].file)))
      => /\ (features[j].paths = <<"/api">> /\ FirstCandidate(symbols[k].file, j))
              => symbols[k].feature = features[j].id
         /\ features[j].paths = <<"/api/">>
              => (j \notin MatchingRules(symbols[k].file)
                  /\ symbols[k].feature # features[j].id)

\* the rules are "/api/" and then "/api"; the symbol of
\* src/apiary/Widget.jsx has been classified, into the feature of the second
SubstringOverMatchWitness ==
  /\ Len(features) = 2
  /\ features[1].paths = <<"/api/">> /\ features[2].paths = <<"/api">>
  /\ \E k \in 1..Classified :
       /\ symbols[k].file = "src/apiary/Widget.jsx"
       /\ symbols[k].feature = features[2].id /\ features[2].id # features[1].id

\* the first loop of filterSymbols is over
Filtered == pc \notin {"findCtags", "runCtags", "exit1", "filter"}

\* the raw entries the normalizer keeps, in the order of the raw entries
Survivors == SelectSeq(entries, LAMBDA e : FilterOne(<<>>, e) # <<>>)

\* C24: the normalizer preserves order and orphans come last. Once the
\* first loop is over, the first nFiltered symbols are the surviving raw
\* entries in the order of the raw entries (name, line and relativized
\* file of each); during the scan and when filterSymbols has returned,
\* every symbol after them is one the scan made: a function whose file is
\* a scanned file with a declaration head of its name and for which no
\* surviving raw entry has that file and name.
NormalizerPreservesOrder ==
  Filtered =>
    /\ nFiltered = Len(Survivors) /\ nFiltered <= Len(symbols)
    /\ \A k \in 1..nFiltered :
         /\ symbols[k].name = Survivors[k].name
         /\ symbols[k].line = Survivors[k].line
         /\ symbols[k].file = Relative(absRoot, Survivors[k].path)
    /\ \A k \in (nFiltered + 1)..Len(symbols) :
         /\ symbols[k].kind = "function"
         /\ \E f \in 1..Len(tsxFiles) : tsxFiles[f] = symbols[k].file
         /\ pc \in {"scan", "classify"}
              => Heads(ReadFile(symbols[k].file).text, symbols[k].name) # {}
         /\ \A e \in 1..Len(Survivors) :
              ~(/\ Relative(absRoot, Survivors[e].path) = symbols[k].file
                /\ Survivors[e].name = symbols[k].name)

\* the scan is over: four raw entries of four names survived, in their
\* order, and an orphan follows them
NormalizerPreservesOrderWitness ==
  /\ Scanned /\ nFiltered = 4 /\ Len(symbols) > nFiltered
  /\ \A a, b \in 1..nFiltered : a # b => symbols[a].name # symbols[b].name
  /\ \A k \in 1..nFiltered : symbols[k].name = entries[k].name

\* the last four characters of a file name are ".tsx" or ".jsx"
UiExtension(relFile) ==
  /\ Len(relFile) >= 4
  /\ SubSeq(relFile, Len(relFile) - 3, Len(relFile)) \in {".tsx", ".jsx"}

\* the files of the raw entries, relative to the scanned root
EntryFiles == {Relative(absRoot, entries[k].path) : k \in 1..Len(entries)}

\* C25: the scope of the orphan scan. At every moment a file that has been
\* read is a .tsx or .jsx file some raw entry refers to, and it has been
\* read once; once the scan is over, every .tsx or .jsx file a raw entry
\* refers to has been read, whether or not an entry of it survived the
\* normalizer. Files of other extensions and files without a raw entry are
\* never read.
OrphanScanScope ==
  /\ \A a \in 1..Len(readLog) :
       /\ UiExtension(readLog[a]) /\ readLog[a] \in EntryFiles
       /\ \A b \in 1..Len(readLog) : readLog[a] = readLog[b] => a = b
  /\ Scanned =>
       \A f \in EntryFiles : UiExtension(f) => \E a \in 1..Len(readLog) : readLog[a] = f

\* the scan is over: a .tsx file whose only raw entry the normalizer
\* dropped has been read, once, and the .ts file of a surviving entry and
\* the entry-less src/api/Card.tsx have not
OrphanScanScopeWitness ==
  /\ Scanned /\ Len(entries) = 2 /\ nFiltered = 1
  /\ readLog = <<"src/api/Banner.tsx">>
  /\ \E k \in 1..2 : entries[k].name = "MAX_RETRIES"
  /\ \E k \in 1..2 : Relative(absRoot, entries[k].path) = "lib/util.ts"
  /\ "src/api/Card.tsx" \in DOMAIN fsys

\* the sum of a field over the buckets of featureMap from the k-th on
RECURSIVE BucketSum(_, _)
BucketSum(field, k) ==
  IF k > Len(featureMap) THEN 0
  ELSE OrZero(featureMap[k], field) + BucketSum(field, k + 1)

\* the sum of a field over the churn records from the k-th on
RECURSIVE RecordSum(_, _)
RecordSum(field, k) ==
  IF k > Len(churnData) THEN 0 ELSE churnData[k][field] + RecordSum(field, k + 1)

\* the buckets have been seeded
Seeded == pc \in {"aggregate", "churn", "score", "rank", "stats", "json", "report", "done"}

\* C26: every bucket a classification can target is pre-seeded. From the
\* seeding on, the ids of featureMap are the configured rule ids and
\* "uncategorized", no more; the symbol the aggregation loop is at finds
\* its bucket (the on-demand creation is not reached); the record the
\* overlay loop is at finds its bucket (it is not skipped); and when the
\* overlay loop is over the churn of all buckets adds up to the churn of
\* all records, and so do the commits.
BucketsPreSeeded ==
  /\ Seeded =>
       {featureMap[k].id : k \in 1..Len(featureMap)}
         = {features[j].id : j \in 1..Len(features)} \cup {"uncategorized"}
  /\ (pc = "aggregate" /\ i <= Len(symbols)) =>
       MapIndex(featureMap, symbols[i].feature) # 0
  /\ (pc = "churn" /\ i <= Len(churnData)) =>
       MapIndex(featureMap, classifySymbol(churnData[i].path, features).id) # 0
  /\ (since # null /\ pc \in {"score", "rank", "stats", "json", "report", "done"}) =>
       /\ BucketSum("churn", 1) = RecordSum("churn", 1)
       /\ BucketSum("commits", 1) = RecordSum("commits", 1)

\* the overlay is over; a symbol and a churn record went to the
\* uncategorized bucket, another record to the bucket of a rule, and the
\* buckets hold the churn of both
BucketsPreSeededWitness ==
  /\ since # null /\ pc = "score" /\ i = 1
  /\ \E k \in 1..Len(symbols) : symbols[k].feature = "uncategorized"
  /\ \E a, b \in 1..Len(churnData) :
       /\ classifySymbol(churnData[a].path, features).id = "uncategorized"
       /\ classifySymbol(churnData[b].path, features).id # "uncategorized"
       /\ churnData[a].churn > 0 /\ churnData[b].churn > 0
  /\ BucketSum("churn", 1) = RecordSum("churn", 1) /\ BucketSum("churn", 1) > 0

\* the characters an identifier goes on with
IdentifierPart == AlNum \cup {"_", "$"}

\* C27: the name of every orphan-synthesized symbol is the complete
\* identifier declared after "export [default] const|function". Once the
\* scan is over, every symbol the scan added has a declaration head of its
\* name in its file after which the identifier ends (the text ends or the
\* next character is no identifier character); in particular no symbol
\* "MAX" stands for the constant MAX_RETRIES.
OrphanNameComplete ==
  Scanned =>
    \A k \in (nFiltered + 1)..Len(symbols) :
      LET text == ReadFile(symbols[k].file).text
      IN  \E p \in Heads(text, symbols[k].name) :
            \/ ExportReAt(text, p).end > Len(text)
            \/ Ch(text, ExportReAt(text, p).end) \notin IdentifierPart

====
